---- MODULE Spec2Model ----
(***************************************************************************)
(* Model of the nulink-watcher block poller and epoch synchronizer         *)
(* (package ethereum: Listener.PollBlocks, Listener.syncStakeInfos,        *)
(* Listener.GetStakeInfo, Listener.getDepositEventsForBlock and the        *)
(* persistence helpers ReadStakeInfos / WriteStakeInfos / ReadLatestBlock  *)
(* / WriteLatestBlock).                                                    *)
(*                                                                         *)
(* The poller is a single goroutine; pc is its position.  The steps of     *)
(* syncStakeInfos that have an effect outside the process (SubmitTx and    *)
(* the two file writes) are separate steps, so that a process crash can    *)
(* fall between any two of them.                                           *)
(***************************************************************************)
EXTENDS Integers, Sequences, FiniteSets, TLC

\* ------------------------------------------------------------------ bounds
EpochLength      == 3      \* params.EpochLength, scaled down
BlockRetryLimit  == 2      \* params.BlockRetryLimit, scaled down
MaxHeight        == 4      \* heights above this are not polled
MaxConfirmations == 1      \* BlockConfirmations is drawn from 0..MaxConfirmations
MaxStartBlock    == 1      \* the configured start block is drawn from 0..MaxStartBlock
MaxRestarts      == 1      \* process restarts explored
MaxStakers       == 2      \* stakers enumerated by one GetStakeInfo call
MaxLogs          == 2      \* deposit logs in one block
MaxAccumulated   == 3      \* the scanner is not driven past this many pending records

Addresses == 1..2          \* staker addresses (the zero address is 0)
Balances  == 1..2          \* locked balances

\* ------------------------------------------------------------- state
VARIABLES
    pc,                 \* position of the poller goroutine
    currentBlock,       \* PollBlocks: currentBlock
    retry,              \* PollBlocks: retry
    latestBlock,        \* PollBlocks: result of the last LatestBlock() call, -1 before any / on error
    StartBlock,         \* l.Config.StartBlock of this run
    BlockConfirmations, \* l.Config.BlockConfirmations
    configuredStart,    \* start block of the configuration file
    stopRaised,         \* a value is available on l.Stop (raised by the host)
    outcome,            \* return value of PollBlocks ("none" while it runs)
    syncErr,            \* return value of the last syncStakeInfos call
    top20StakeInfos,    \* syncStakeInfos: top20StakeInfos
    infos,              \* syncStakeInfos: infos (the SubmitTx payload)
    registryErr,        \* GetStakeInfo of this call could not read the registry
    snapFile,           \* file at l.LastStakeInfoPath
    cursorFile,         \* file at l.LatestBlockPath
    stakeInfoList,      \* package variable stakeInfoList (the accumulator)
    scanBlock,          \* next block handed to getDepositEventsForBlock
    scanSubmit,         \* result of the SubmitTx made by the last getDepositEventsForBlock call
    scanPayload,        \* payload of that SubmitTx
    \* history variables
    callLog,            \* external effects of the current syncStakeInfos call, in order
    submitted,          \* heights at which SubmitTx of syncStakeInfos succeeded
    processed,          \* heights whose processing returned success in this run
    fails,              \* consecutive LatestBlock failures
    budgetFails,        \* LatestBlock failures since the retry budget was last full
    snapCommit,         \* the successful submission the snapshot file was written for
    lastSubmit,         \* the last successful submission of syncStakeInfos
    restarts,           \* restarts so far
    buildInput,         \* arguments of the last GetStakeInfo call made on its own
    buildOutcome        \* what that call produced

vars == <<pc, currentBlock, retry, latestBlock, StartBlock, BlockConfirmations,
          configuredStart, stopRaised, outcome, syncErr, top20StakeInfos, infos, registryErr,
          snapFile, cursorFile, stakeInfoList, scanBlock, scanSubmit, scanPayload,
          callLog, submitted, processed, fails, budgetFails, snapCommit, lastSubmit,
          restarts, buildInput, buildOutcome>>

pollerVars == <<pc, currentBlock, retry, latestBlock, StartBlock, BlockConfirmations,
                configuredStart, stopRaised, outcome, syncErr, top20StakeInfos, infos, registryErr,
                snapFile, cursorFile, callLog, submitted, processed, fails, budgetFails,
                snapCommit, lastSubmit, restarts>>

scanVars == <<stakeInfoList, scanBlock, scanSubmit, scanPayload>>

buildVars == <<buildInput, buildOutcome>>

\* ------------------------------------------------------------- records
\* substrate.StakeInfo as built by GetStakeInfo and getDepositEventsForBlock
StakeInfo(staker, value) ==
    [Coinbase |-> staker, WorkBase |-> staker, IsWork |-> TRUE,
     LockedBalance |-> value, WorkCount |-> 0]

Range(s) == {s[i] : i \in 1..Len(s)}

\* sequences of length <= n over S
SeqUpTo(S, n) == UNION {[1..k -> S] : k \in 0..n}

\* what one enumeration of the registry can return: distinct staker addresses
Enumerations ==
    {s \in SeqUpTo(Addresses \X Balances, MaxStakers) :
        \A i, j \in 1..Len(s) : i # j => s[i][1] # s[j][1]}

\* ------------------------------------------------------------- ranking
\* length of the ranked snapshot: 20 in LockedBalanceTop20, scaled down below
\* MaxStakers so that the cut is made
Top20Limit == 1

RECURSIVE InsertDesc(_, _)
InsertDesc(sorted, x) ==
    IF sorted = <<>> THEN <<x>>
    ELSE IF Head(sorted).LockedBalance >= x.LockedBalance
         THEN <<Head(sorted)>> \o InsertDesc(Tail(sorted), x)
         ELSE <<x>> \o sorted

RECURSIVE SortDesc(_, _)
SortDesc(acc, rest) ==
    IF rest = <<>> THEN acc ELSE SortDesc(InsertDesc(acc, Head(rest)), Tail(rest))

LockedBalanceTop20(s) ==
    LET sorted == SortDesc(<<>>, s)
    IN  IF Len(sorted) > Top20Limit THEN SubSeq(sorted, 1, Top20Limit) ELSE sorted

\* ------------------------------------------------------------- persistence
NoFile == [exists |-> FALSE, data |-> <<>>]

\* rlp.EncodeToBytes of a list of StakeInfo: a list header carrying the
\* payload length, then the fields of every item in declaration order
RlpEncode(list) ==
    <<  <<Len(list)>>  >> \o
    [i \in 1..Len(list) |->
        <<list[i].Coinbase, list[i].WorkBase, IF list[i].IsWork THEN 1 ELSE 0,
          list[i].LockedBalance, list[i].WorkCount>>]

RlpDecode(data) ==
    [i \in 1..(Len(data) - 1) |->
        [Coinbase |-> data[i + 1][1], WorkBase |-> data[i + 1][2],
         IsWork |-> (data[i + 1][3] = 1), LockedBalance |-> data[i + 1][4],
         WorkCount |-> data[i + 1][5]]]

\* big.Int.String(): decimal digits, most significant first
RECURSIVE ToDecimal(_)
ToDecimal(n) == IF n < 10 THEN <<n>> ELSE ToDecimal(n \div 10) \o <<n % 10>>

\* big.Int.SetString(s, 10)
RECURSIVE FromDecimal(_)
FromDecimal(d) ==
    IF Len(d) = 1 THEN d[1]
    ELSE 10 * FromDecimal(SubSeq(d, 1, Len(d) - 1)) + d[Len(d)]

\* ReadStakeInfos: a missing or empty file is an empty list
ReadStakeInfos(file) ==
    IF ~file.exists THEN <<>>
    ELSE IF Len(file.data) = 0 THEN <<>>
    ELSE RlpDecode(file.data)

\* variant: a missing file is reported as a read error
ReadStakeInfosErr_MissingIsError(file, statOK, readOK) ==
    IF ~statOK THEN "stat"
    ELSE IF ~file.exists THEN "read"
    ELSE IF ~readOK THEN "read"
    ELSE IF Len(file.data) = 0 THEN "nil"
    ELSE IF file.data[1] # <<Len(file.data) - 1>> THEN "decode"
    ELSE "nil"

\* ReadStakeInfos: the error returned.  statOK: os.Stat succeeds or reports
\* that the file does not exist; readOK: ioutil.ReadFile succeeds.
ReadStakeInfosErr(file, statOK, readOK) ==
    IF ~statOK THEN "stat"
    ELSE IF ~file.exists THEN "nil"
    ELSE IF ~readOK THEN "read"
    ELSE IF Len(file.data) = 0 THEN "nil"
    ELSE IF file.data[1] # <<Len(file.data) - 1>> THEN "decode"
    ELSE "nil"

\* WriteStakeInfos: the file afterwards
WriteStakeInfos(list) == [exists |-> TRUE, data |-> RlpEncode(list)]

\* variant: the height after the committed one is written
WriteLatestBlock_NextHeight(number) == [exists |-> TRUE, data |-> ToDecimal(number + 1)]

\* WriteLatestBlock: the file afterwards
WriteLatestBlock(number) == [exists |-> TRUE, data |-> ToDecimal(number)]

\* ReadLatestBlock: 0 when the file is missing
ReadLatestBlock(file) == IF file.exists THEN FromDecimal(file.data) ELSE 0

\* ReadLatestBlock: the error returned
ReadLatestBlockErr(file, statOK, readOK) ==
    IF ~statOK THEN "stat"
    ELSE IF ~file.exists THEN "nil"
    ELSE IF ~readOK THEN "read"
    ELSE "nil"

\* ------------------------------------------------------------- snapshot builder
\* what the two lookups made for one registry index can do: both succeed,
\* nc.Stakers fails, or nc.StakerInfo fails
LookupOutcomes == {"ok", "stakersErr", "infoErr"}

AllOK(enumerated) == [i \in 1..Len(enumerated) |-> "ok"]

\* after a failed nc.Stakers the local `staker` is the zero address, for which
\* the registry reports no stake
ZeroAddress == 0
ZeroAddressStake == 0

\* GetStakeInfo: when the binding or GetStakersLength fails the result is the
\* empty list with a nil error; otherwise one record per enumerated index.  A
\* failed nc.Stakers is logged and the loop body goes on (lines 219-222), so a
\* record is appended for that index as well.
GetStakeInfo(registryOK, enumerated, lookups) ==
    IF ~registryOK THEN <<>>
    ELSE [i \in 1..Len(enumerated) |->
            IF lookups[i] = "stakersErr"
            THEN StakeInfo(ZeroAddress, ZeroAddressStake)
            ELSE StakeInfo(enumerated[i][1], enumerated[i][2])]

\* a failed nc.StakerInfo is logged and the loop body goes on (lines 224-227);
\* line 233 then dereferences the Value of the empty result, which is nil
GetStakeInfoPanics(registryOK, enumerated, lookups) ==
    registryOK /\ \E i \in 1..Len(enumerated) : lookups[i] = "infoErr"

\* ------------------------------------------------------------- epoch synchronizer
\* variant: the early return of line 150 has its test inverted
IsEpoch_Inverted(h) == h % EpochLength # 0

\* line 150: the height is a multiple of the epoch length
IsEpoch(h) == h % EpochLength = 0

\* The diff loop of syncStakeInfos.  The inner loop over top20StakeInfos only
\* executes `continue`, which continues the inner loop; every record of
\* lastInfos is then marked IsWork = false and appended.
StoppedStaker(lastInfos, top20) ==
    [i \in 1..Len(lastInfos) |-> [lastInfos[i] EXCEPT !.IsWork = FALSE]]

\* variant: the cursor is written before the snapshot
CommitOrder_CursorFirst == <<"WriteLatestBlock", "WriteStakeInfos">>

\* the two persistence writes of a commit, in program order
CommitOrder == <<"WriteStakeInfos", "WriteLatestBlock">>

AfterCommitStep(step) ==
    IF step = CommitOrder[1] THEN CommitOrder[2] ELSE "ret"

NoSubmit == [height |-> -1, top |-> <<>>]

\* no GetStakeInfo call made on its own yet
NoBuild == [registryOK |-> TRUE, enumerated |-> <<>>, lookups |-> <<>>]

NoOutcome == [panicked |-> FALSE, list |-> <<>>]

\* ------------------------------------------------------------- block poller
\* variant: the budget test lets the counter run past zero
RetriesExhausted_BelowZero(r) == r < 0

\* line 54: the retry budget is exhausted
RetriesExhausted(r) == r = 0

\* variant: the comparison also waits when the difference equals the depth
NotConfirmed_OffByOne(latest, current, confirmations) == latest - current <= confirmations

\* line 73: (latestBlock - currentBlock) < BlockConfirmations
NotConfirmed(latest, current, confirmations) == latest - current < confirmations

\* heights a LatestBlock() call is made to return around the candidate height
LatestCandidates(h, d) == {l \in {h - 1, h + d - 1, h + d} : l >= 0}

Init ==
    /\ pc = "poll"
    /\ configuredStart \in 0..MaxStartBlock
    /\ StartBlock = configuredStart
    /\ currentBlock = StartBlock
    /\ BlockConfirmations \in 0..MaxConfirmations
    /\ retry = BlockRetryLimit
    /\ latestBlock = -1
    /\ stopRaised = FALSE
    /\ outcome = "none"
    /\ syncErr = "nil"
    /\ top20StakeInfos = <<>>
    /\ infos = <<>>
    /\ registryErr = FALSE
    /\ snapFile = NoFile
    /\ cursorFile = NoFile
    /\ stakeInfoList = <<>>
    /\ scanBlock = 0
    /\ scanSubmit = "none"
    /\ scanPayload = <<>>
    /\ callLog = <<>>
    /\ submitted = {}
    /\ processed = {}
    /\ fails = 0
    /\ budgetFails = 0
    /\ buildInput = NoBuild
    /\ buildOutcome = NoOutcome
    /\ snapCommit = NoSubmit
    /\ lastSubmit = NoSubmit
    /\ restarts = 0

\* lines 49-51: a value is received from l.Stop
PollStopped ==
    /\ pc = "poll"
    /\ stopRaised
    /\ pc' = "stopped"
    /\ outcome' = "polling terminated"
    /\ UNCHANGED <<currentBlock, retry, latestBlock, StartBlock, BlockConfirmations,
                   configuredStart, stopRaised, syncErr, top20StakeInfos, infos, registryErr,
                   snapFile, cursorFile, callLog, submitted, processed, fails, budgetFails,
                   snapCommit, lastSubmit, restarts>>
    /\ UNCHANGED scanVars
    /\ UNCHANGED buildVars

\* lines 54-57: no retries left
PollRetriesExceeded ==
    /\ pc = "poll"
    /\ ~stopRaised
    /\ RetriesExhausted(retry)
    /\ pc' = "sendStopRetries"
    /\ UNCHANGED <<currentBlock, retry, latestBlock, StartBlock, BlockConfirmations,
                   configuredStart, stopRaised, outcome, syncErr, top20StakeInfos, infos, registryErr,
                   snapFile, cursorFile, callLog, submitted, processed, fails, budgetFails,
                   snapCommit, lastSubmit, restarts>>
    /\ UNCHANGED scanVars
    /\ UNCHANGED buildVars

\* lines 64-70: LatestBlock() fails
PollFetchFail ==
    /\ pc = "poll"
    /\ ~stopRaised
    /\ ~RetriesExhausted(retry)
    /\ currentBlock <= MaxHeight
    /\ retry' = retry - 1
    /\ fails' = fails + 1
    /\ budgetFails' = budgetFails + 1
    /\ latestBlock' = -1
    /\ UNCHANGED <<pc, currentBlock, StartBlock, BlockConfirmations,
                   configuredStart, stopRaised, outcome, syncErr, top20StakeInfos, infos, registryErr,
                   snapFile, cursorFile, callLog, submitted, processed,
                   snapCommit, lastSubmit, restarts>>
    /\ UNCHANGED scanVars
    /\ UNCHANGED buildVars

\* variant: the default branch runs although a value is ready on l.Stop
PollFetch_IgnoreStop ==
    /\ pc = "poll"
    /\ ~RetriesExhausted(retry)
    /\ currentBlock <= MaxHeight
    /\ \E l \in LatestCandidates(currentBlock, BlockConfirmations) :
          /\ latestBlock' = l
          /\ IF NotConfirmed(l, currentBlock, BlockConfirmations)
             THEN pc' = "poll" /\ callLog' = callLog
             ELSE pc' = "sync" /\ callLog' = <<>>
    /\ fails' = 0
    /\ UNCHANGED <<currentBlock, retry, budgetFails, StartBlock, BlockConfirmations,
                   configuredStart, stopRaised, outcome, syncErr, top20StakeInfos, infos, registryErr,
                   snapFile, cursorFile, submitted, processed,
                   snapCommit, lastSubmit, restarts>>
    /\ UNCHANGED scanVars
    /\ UNCHANGED buildVars

\* variant: a wait for confirmations also decrements the retry counter
PollFetch_WaitConsumesRetry ==
    /\ pc = "poll"
    /\ ~stopRaised
    /\ ~RetriesExhausted(retry)
    /\ currentBlock <= MaxHeight
    /\ \E l \in LatestCandidates(currentBlock, BlockConfirmations) :
          /\ latestBlock' = l
          /\ IF NotConfirmed(l, currentBlock, BlockConfirmations)
             THEN pc' = "poll" /\ callLog' = callLog /\ retry' = retry - 1
             ELSE pc' = "sync" /\ callLog' = <<>> /\ retry' = retry
    /\ fails' = 0
    /\ UNCHANGED <<currentBlock, budgetFails, StartBlock, BlockConfirmations,
                   configuredStart, stopRaised, outcome, syncErr, top20StakeInfos, infos, registryErr,
                   snapFile, cursorFile, submitted, processed,
                   snapCommit, lastSubmit, restarts>>
    /\ UNCHANGED scanVars
    /\ UNCHANGED buildVars

\* lines 64-79: LatestBlock() succeeds; either the block is not ready (sleep,
\* continue) or syncStakeInfos(currentBlock) is called
PollFetch ==
    /\ pc = "poll"
    /\ ~stopRaised
    /\ ~RetriesExhausted(retry)
    /\ currentBlock <= MaxHeight
    /\ \E l \in LatestCandidates(currentBlock, BlockConfirmations) :
          /\ latestBlock' = l
          /\ IF NotConfirmed(l, currentBlock, BlockConfirmations)
             THEN pc' = "poll" /\ callLog' = callLog
             ELSE pc' = "sync" /\ callLog' = <<>>
    /\ fails' = 0
    /\ UNCHANGED <<currentBlock, retry, budgetFails, StartBlock, BlockConfirmations,
                   configuredStart, stopRaised, outcome, syncErr, top20StakeInfos, infos, registryErr,
                   snapFile, cursorFile, submitted, processed,
                   snapCommit, lastSubmit, restarts>>
    /\ UNCHANGED scanVars
    /\ UNCHANGED buildVars

\* variant: the height of every block that needs no commit is stored as well
SyncBegin_StoreEveryBlock ==
    /\ pc = "sync"
    /\ IF ~IsEpoch(currentBlock)
       THEN /\ pc' = "ret"
            /\ syncErr' = "nil"
            /\ cursorFile' = WriteLatestBlock(currentBlock)
            /\ UNCHANGED <<top20StakeInfos, infos, registryErr>>
       ELSE \E registryOK \in BOOLEAN, enumerated \in Enumerations,
               statOK \in BOOLEAN, readOK \in BOOLEAN :
            LET top20     == LockedBalanceTop20(GetStakeInfo(registryOK, enumerated, AllOK(enumerated)))
                lastInfos == ReadStakeInfos(snapFile)
                err       == ReadStakeInfosErr(snapFile, statOK, readOK)
            IN  /\ top20StakeInfos' = top20
                /\ registryErr' = ~registryOK
                /\ cursorFile' = cursorFile
                /\ IF err = "nil"
                   THEN /\ infos' = top20 \o StoppedStaker(lastInfos, top20)
                        /\ pc' = "SubmitTx"
                        /\ syncErr' = "nil"
                   ELSE /\ infos' = <<>>
                        /\ pc' = "ret"
                        /\ syncErr' = err
    /\ UNCHANGED <<currentBlock, retry, latestBlock, StartBlock, BlockConfirmations,
                   configuredStart, stopRaised, outcome,
                   snapFile, callLog, submitted, processed, fails, budgetFails,
                   snapCommit, lastSubmit, restarts>>
    /\ UNCHANGED scanVars
    /\ UNCHANGED buildVars

\* lines 149-175: syncStakeInfos up to the SubmitTx call
SyncBegin ==
    /\ pc = "sync"
    /\ IF ~IsEpoch(currentBlock)
       THEN /\ pc' = "ret"
            /\ syncErr' = "nil"
            /\ UNCHANGED <<top20StakeInfos, infos, registryErr>>
       ELSE \E registryOK \in BOOLEAN, enumerated \in Enumerations,
               statOK \in BOOLEAN, readOK \in BOOLEAN :
            LET top20     == LockedBalanceTop20(GetStakeInfo(registryOK, enumerated, AllOK(enumerated)))
                lastInfos == ReadStakeInfos(snapFile)
                err       == ReadStakeInfosErr(snapFile, statOK, readOK)
            IN  /\ top20StakeInfos' = top20
                /\ registryErr' = ~registryOK
                /\ IF err = "nil"
                   THEN /\ infos' = top20 \o StoppedStaker(lastInfos, top20)
                        /\ pc' = "SubmitTx"
                        /\ syncErr' = "nil"
                   ELSE /\ infos' = <<>>
                        /\ pc' = "ret"
                        /\ syncErr' = err
    /\ UNCHANGED <<currentBlock, retry, latestBlock, StartBlock, BlockConfirmations,
                   configuredStart, stopRaised, outcome,
                   snapFile, cursorFile, callLog, submitted, processed, fails, budgetFails,
                   snapCommit, lastSubmit, restarts>>
    /\ UNCHANGED scanVars
    /\ UNCHANGED buildVars

\* variant: a failed submission is logged and the commit goes on (no return)
SubmitTx_NoReturn ==
    /\ pc = "SubmitTx"
    /\ \E ok \in BOOLEAN :
          IF ok
          THEN /\ callLog' = Append(callLog, "submit")
               /\ submitted' = submitted \cup {currentBlock}
               /\ lastSubmit' = [height |-> currentBlock, top |-> top20StakeInfos]
               /\ pc' = CommitOrder[1]
               /\ syncErr' = syncErr
          ELSE /\ callLog' = Append(callLog, "submitFail")
               /\ syncErr' = "submit"
               /\ pc' = CommitOrder[1]
               /\ UNCHANGED <<submitted, lastSubmit>>
    /\ UNCHANGED <<currentBlock, retry, latestBlock, StartBlock, BlockConfirmations,
                   configuredStart, stopRaised, outcome, top20StakeInfos, infos, registryErr,
                   snapFile, cursorFile, processed, fails, budgetFails, snapCommit, restarts>>
    /\ UNCHANGED scanVars
    /\ UNCHANGED buildVars

\* variant: a failed submission is logged and nil is returned
SubmitTx_SwallowError ==
    /\ pc = "SubmitTx"
    /\ \E ok \in BOOLEAN :
          IF ok
          THEN /\ callLog' = Append(callLog, "submit")
               /\ submitted' = submitted \cup {currentBlock}
               /\ lastSubmit' = [height |-> currentBlock, top |-> top20StakeInfos]
               /\ pc' = CommitOrder[1]
               /\ syncErr' = syncErr
          ELSE /\ callLog' = Append(callLog, "submitFail")
               /\ syncErr' = "nil"
               /\ pc' = "ret"
               /\ UNCHANGED <<submitted, lastSubmit>>
    /\ UNCHANGED <<currentBlock, retry, latestBlock, StartBlock, BlockConfirmations,
                   configuredStart, stopRaised, outcome, top20StakeInfos, infos, registryErr,
                   snapFile, cursorFile, processed, fails, budgetFails, snapCommit, restarts>>
    /\ UNCHANGED scanVars
    /\ UNCHANGED buildVars

\* lines 176-180: SubmitTx(UpdateStakeInfo, infos)
SubmitTx ==
    /\ pc = "SubmitTx"
    /\ \E ok \in BOOLEAN :
          IF ok
          THEN /\ callLog' = Append(callLog, "submit")
               /\ submitted' = submitted \cup {currentBlock}
               /\ lastSubmit' = [height |-> currentBlock, top |-> top20StakeInfos]
               /\ pc' = CommitOrder[1]
               /\ syncErr' = syncErr
          ELSE /\ callLog' = Append(callLog, "submitFail")
               /\ syncErr' = "submit"
               /\ pc' = "ret"
               /\ UNCHANGED <<submitted, lastSubmit>>
    /\ UNCHANGED <<currentBlock, retry, latestBlock, StartBlock, BlockConfirmations,
                   configuredStart, stopRaised, outcome, top20StakeInfos, infos, registryErr,
                   snapFile, cursorFile, processed, fails, budgetFails, snapCommit, restarts>>
    /\ UNCHANGED scanVars
    /\ UNCHANGED buildVars

\* variant: a failed snapshot write is logged and the commit goes on
WriteStakeInfosStep_IgnoreError ==
    /\ pc = "WriteStakeInfos"
    /\ \E ok \in BOOLEAN :
          IF ok
          THEN /\ snapFile' = WriteStakeInfos(top20StakeInfos)
               /\ snapCommit' = lastSubmit
               /\ callLog' = Append(callLog, "snap")
               /\ pc' = AfterCommitStep("WriteStakeInfos")
               /\ syncErr' = syncErr
          ELSE /\ syncErr' = syncErr
               /\ pc' = AfterCommitStep("WriteStakeInfos")
               /\ UNCHANGED <<snapFile, snapCommit, callLog>>
    /\ UNCHANGED <<currentBlock, retry, latestBlock, StartBlock, BlockConfirmations,
                   configuredStart, stopRaised, outcome, top20StakeInfos, infos, registryErr,
                   cursorFile, submitted, processed, fails, budgetFails, lastSubmit, restarts>>
    /\ UNCHANGED scanVars
    /\ UNCHANGED buildVars

\* variant: the submitted payload is persisted as the snapshot
WriteStakeInfosStep_PersistPayload ==
    /\ pc = "WriteStakeInfos"
    /\ \E ok \in BOOLEAN :
          IF ok
          THEN /\ snapFile' = WriteStakeInfos(infos)
               /\ snapCommit' = lastSubmit
               /\ callLog' = Append(callLog, "snap")
               /\ pc' = AfterCommitStep("WriteStakeInfos")
               /\ syncErr' = syncErr
          ELSE /\ syncErr' = "writeSnap"
               /\ pc' = "ret"
               /\ UNCHANGED <<snapFile, snapCommit, callLog>>
    /\ UNCHANGED <<currentBlock, retry, latestBlock, StartBlock, BlockConfirmations,
                   configuredStart, stopRaised, outcome, top20StakeInfos, infos, registryErr,
                   cursorFile, submitted, processed, fails, budgetFails, lastSubmit, restarts>>
    /\ UNCHANGED scanVars
    /\ UNCHANGED buildVars

\* lines 182-184: WriteStakeInfos(l.LastStakeInfoPath, top20StakeInfos)
WriteStakeInfosStep ==
    /\ pc = "WriteStakeInfos"
    /\ \E ok \in BOOLEAN :
          IF ok
          THEN /\ snapFile' = WriteStakeInfos(top20StakeInfos)
               /\ snapCommit' = lastSubmit
               /\ callLog' = Append(callLog, "snap")
               /\ pc' = AfterCommitStep("WriteStakeInfos")
               /\ syncErr' = syncErr
          ELSE /\ syncErr' = "writeSnap"
               /\ pc' = "ret"
               /\ UNCHANGED <<snapFile, snapCommit, callLog>>
    /\ UNCHANGED <<currentBlock, retry, latestBlock, StartBlock, BlockConfirmations,
                   configuredStart, stopRaised, outcome, top20StakeInfos, infos, registryErr,
                   cursorFile, submitted, processed, fails, budgetFails, lastSubmit, restarts>>
    /\ UNCHANGED scanVars
    /\ UNCHANGED buildVars

\* lines 185-188: WriteLatestBlock(l.LatestBlockPath, latestBlock)
WriteLatestBlockStep ==
    /\ pc = "WriteLatestBlock"
    /\ \E ok \in BOOLEAN :
          IF ok
          THEN /\ cursorFile' = WriteLatestBlock(currentBlock)
               /\ callLog' = Append(callLog, "cursor")
               /\ pc' = AfterCommitStep("WriteLatestBlock")
               /\ syncErr' = syncErr
          ELSE /\ syncErr' = "writeCursor"
               /\ pc' = "ret"
               /\ UNCHANGED <<cursorFile, callLog>>
    /\ UNCHANGED <<currentBlock, retry, latestBlock, StartBlock, BlockConfirmations,
                   configuredStart, stopRaised, outcome, top20StakeInfos, infos, registryErr,
                   snapFile, submitted, processed, fails, budgetFails, snapCommit, lastSubmit, restarts>>
    /\ UNCHANGED scanVars
    /\ UNCHANGED buildVars

\* variant: the error is logged and the loop goes to the next block
PollReturn_AdvanceOnError ==
    /\ pc = "ret"
    /\ currentBlock' = currentBlock + 1
    /\ retry' = BlockRetryLimit
    /\ budgetFails' = 0
    /\ processed' = IF syncErr = "nil" THEN processed \cup {currentBlock} ELSE processed
    /\ pc' = "poll"
    /\ top20StakeInfos' = <<>>
    /\ infos' = <<>>
    /\ registryErr' = FALSE
    /\ latestBlock' = -1
    /\ UNCHANGED <<StartBlock, BlockConfirmations,
                   configuredStart, stopRaised, outcome, syncErr,
                   snapFile, cursorFile, callLog, submitted, fails,
                   snapCommit, lastSubmit, restarts>>
    /\ UNCHANGED scanVars
    /\ UNCHANGED buildVars

\* variant: the error is treated as transient and the same block is retried
PollReturn_RetryOnError ==
    /\ pc = "ret"
    /\ IF syncErr # "nil"
       THEN /\ pc' = "poll"
            /\ retry' = retry - 1
            /\ budgetFails' = budgetFails + 1
            /\ UNCHANGED <<currentBlock, processed>>
       ELSE /\ currentBlock' = currentBlock + 1
            /\ retry' = BlockRetryLimit
            /\ budgetFails' = 0
            /\ processed' = processed \cup {currentBlock}
            /\ pc' = "poll"
    /\ top20StakeInfos' = <<>>
    /\ infos' = <<>>
    /\ registryErr' = FALSE
    /\ latestBlock' = -1
    /\ UNCHANGED <<StartBlock, BlockConfirmations,
                   configuredStart, stopRaised, outcome, syncErr,
                   snapFile, cursorFile, callLog, submitted, fails,
                   snapCommit, lastSubmit, restarts>>
    /\ UNCHANGED scanVars
    /\ UNCHANGED buildVars

\* variant: the retry counter is not reset after a processed block
PollReturn_NoReset ==
    /\ pc = "ret"
    /\ IF syncErr # "nil"
       THEN /\ pc' = "sendStopError"
            /\ UNCHANGED <<currentBlock, retry, budgetFails, processed>>
       ELSE /\ currentBlock' = currentBlock + 1
            /\ retry' = retry
            /\ budgetFails' = 0
            /\ processed' = processed \cup {currentBlock}
            /\ pc' = "poll"
    /\ top20StakeInfos' = <<>>
    /\ infos' = <<>>
    /\ registryErr' = FALSE
    /\ latestBlock' = -1
    /\ UNCHANGED <<StartBlock, BlockConfirmations,
                   configuredStart, stopRaised, outcome, syncErr,
                   snapFile, cursorFile, callLog, submitted, fails,
                   snapCommit, lastSubmit, restarts>>
    /\ UNCHANGED scanVars
    /\ UNCHANGED buildVars

\* variant: the cursor is advanced by two
PollReturn_SkipOne ==
    /\ pc = "ret"
    /\ IF syncErr # "nil"
       THEN /\ pc' = "sendStopError"
            /\ UNCHANGED <<currentBlock, retry, budgetFails, processed>>
       ELSE /\ currentBlock' = currentBlock + 2
            /\ retry' = BlockRetryLimit
            /\ budgetFails' = 0
            /\ processed' = processed \cup {currentBlock}
            /\ pc' = "poll"
    /\ top20StakeInfos' = <<>>
    /\ infos' = <<>>
    /\ registryErr' = FALSE
    /\ latestBlock' = -1
    /\ UNCHANGED <<StartBlock, BlockConfirmations,
                   configuredStart, stopRaised, outcome, syncErr,
                   snapFile, cursorFile, callLog, submitted, fails,
                   snapCommit, lastSubmit, restarts>>
    /\ UNCHANGED scanVars
    /\ UNCHANGED buildVars

\* lines 80-87: PollBlocks after syncStakeInfos has returned
PollReturn ==
    /\ pc = "ret"
    /\ IF syncErr # "nil"
       THEN /\ pc' = "sendStopError"
            /\ UNCHANGED <<currentBlock, retry, budgetFails, processed>>
       ELSE /\ currentBlock' = currentBlock + 1
            /\ retry' = BlockRetryLimit
            /\ budgetFails' = 0
            /\ processed' = processed \cup {currentBlock}
            /\ pc' = "poll"
    /\ top20StakeInfos' = <<>>
    /\ infos' = <<>>
    /\ registryErr' = FALSE
    /\ latestBlock' = -1
    /\ UNCHANGED <<StartBlock, BlockConfirmations,
                   configuredStart, stopRaised, outcome, syncErr,
                   snapFile, cursorFile, callLog, submitted, fails,
                   snapCommit, lastSubmit, restarts>>
    /\ UNCHANGED scanVars
    /\ UNCHANGED buildVars

\* lines 56-57 and 81-82: l.Stop <- struct{}{} is taken by the host, then return
SendStop ==
    /\ pc \in {"sendStopRetries", "sendStopError"}
    /\ pc' = "stopped"
    /\ outcome' = IF pc = "sendStopRetries" THEN "retries exceeded" ELSE syncErr
    /\ UNCHANGED <<currentBlock, retry, latestBlock, StartBlock, BlockConfirmations,
                   configuredStart, stopRaised, syncErr, top20StakeInfos, infos, registryErr,
                   snapFile, cursorFile, callLog, submitted, processed, fails, budgetFails,
                   snapCommit, lastSubmit, restarts>>
    /\ UNCHANGED scanVars
    /\ UNCHANGED buildVars

\* the host raises the stop signal
RaiseStop ==
    /\ pc \notin {"down", "stopped", "sendStopRetries", "sendStopError"}
    /\ ~stopRaised
    /\ stopRaised' = TRUE
    /\ UNCHANGED <<pc, currentBlock, retry, latestBlock, StartBlock, BlockConfirmations,
                   configuredStart, outcome, syncErr, top20StakeInfos, infos, registryErr,
                   snapFile, cursorFile, callLog, submitted, processed, fails, budgetFails,
                   snapCommit, lastSubmit, restarts>>
    /\ UNCHANGED scanVars
    /\ UNCHANGED buildVars

\* the process ends at any point; only the two files survive
Crash ==
    /\ pc # "down"
    /\ restarts < MaxRestarts
    /\ pc' = "down"
    /\ currentBlock' = 0
    /\ StartBlock' = 0
    /\ retry' = 0
    /\ latestBlock' = -1
    /\ stopRaised' = FALSE
    /\ outcome' = "none"
    /\ syncErr' = "nil"
    /\ top20StakeInfos' = <<>>
    /\ infos' = <<>>
    /\ registryErr' = FALSE
    /\ callLog' = <<>>
    /\ processed' = {}
    /\ fails' = 0
    /\ budgetFails' = 0
    /\ UNCHANGED <<BlockConfirmations, configuredStart, snapFile, cursorFile,
                   submitted, snapCommit, lastSubmit, restarts>>
    /\ UNCHANGED scanVars
    /\ UNCHANGED buildVars

\* startup: the cursor file, when present, replaces the configured start block
ResumeBlock(file, configured) ==
    IF file.exists THEN ReadLatestBlock(file) ELSE configured

Restart ==
    /\ pc = "down"
    /\ \E statOK \in BOOLEAN, readOK \in BOOLEAN :
          ReadLatestBlockErr(cursorFile, statOK, readOK) = "nil"
    /\ restarts' = restarts + 1
    /\ StartBlock' = ResumeBlock(cursorFile, configuredStart)
    /\ currentBlock' = StartBlock'
    /\ pc' = "poll"
    /\ retry' = BlockRetryLimit
    /\ UNCHANGED <<latestBlock, stopRaised, outcome, syncErr, top20StakeInfos, infos, registryErr,
                   callLog, processed, fails, budgetFails>>
    /\ UNCHANGED <<BlockConfirmations, configuredStart, snapFile, cursorFile,
                   submitted, snapCommit, lastSubmit>>
    /\ UNCHANGED scanVars
    /\ UNCHANGED buildVars

Next ==
    \/ PollStopped
    \/ PollRetriesExceeded
    \/ PollFetchFail
    \/ PollFetch
    \/ SyncBegin
    \/ SubmitTx
    \/ WriteStakeInfosStep
    \/ WriteLatestBlockStep
    \/ PollReturn
    \/ SendStop
    \/ RaiseStop
    \/ Crash
    \/ Restart

Spec == Init /\ [][Next]_vars

TypeOK ==
    /\ pc \in {"poll", "sync", "SubmitTx", "WriteStakeInfos", "WriteLatestBlock", "ret",
               "sendStopRetries", "sendStopError", "stopped", "down"}
    /\ currentBlock \in 0..(MaxHeight + 1)
    /\ retry \in 0..BlockRetryLimit
    /\ pc = "poll" => latestBlock - currentBlock < BlockConfirmations

\* ------------------------------------------------------------- event scanner
\* lines 104-118: one record per log, appended to stakeInfoList
AppendDeposits(list, logs) ==
    list \o [i \in 1..Len(logs) |-> StakeInfo(logs[i][1], logs[i][2])]

\* lines 98-101: FilterLogs fails, the error is returned
ScanFilterFail ==
    /\ scanBlock <= MaxHeight
    /\ scanSubmit' = "none"
    /\ scanPayload' = <<>>
    /\ UNCHANGED <<stakeInfoList, scanBlock>>
    /\ UNCHANGED pollerVars
    /\ UNCHANGED buildVars

\* lines 93-134: getDepositEventsForBlock(scanBlock) with FilterLogs succeeding
GetDepositEventsForBlock ==
    /\ scanBlock <= MaxHeight
    /\ \E logs \in SeqUpTo(Addresses \X Balances, MaxLogs), submitOK \in BOOLEAN :
          LET appended == AppendDeposits(stakeInfoList, logs)
          IN  /\ Len(appended) <= MaxAccumulated
              /\ IF IsEpoch(scanBlock) /\ Len(appended) # 0
                 THEN /\ scanPayload' = LockedBalanceTop20(appended)
                      /\ scanSubmit' = IF submitOK THEN "ok" ELSE "fail"
                      /\ stakeInfoList' = <<>>
                 ELSE /\ scanPayload' = <<>>
                      /\ scanSubmit' = "none"
                      /\ stakeInfoList' = appended
    /\ scanBlock' = scanBlock + 1
    /\ UNCHANGED pollerVars
    /\ UNCHANGED buildVars

ScanNext ==
    \/ ScanFilterFail
    \/ GetDepositEventsForBlock

ScanSpec == Init /\ [][ScanNext]_vars

\* ------------------------------------------------------------- snapshot builder on its own
\* lines 202-239: one call of GetStakeInfo, with any outcome of every lookup
BuildSnapshot ==
    /\ \E registryOK \in BOOLEAN, enumerated \in Enumerations :
          \E lookups \in [1..Len(enumerated) -> LookupOutcomes] :
             /\ buildInput' = [registryOK |-> registryOK, enumerated |-> enumerated,
                               lookups |-> lookups]
             /\ buildOutcome' =
                   IF GetStakeInfoPanics(registryOK, enumerated, lookups)
                   THEN [panicked |-> TRUE, list |-> <<>>]
                   ELSE [panicked |-> FALSE,
                         list |-> GetStakeInfo(registryOK, enumerated, lookups)]
    /\ UNCHANGED pollerVars
    /\ UNCHANGED scanVars

BuildNext == BuildSnapshot

BuildSpec == Init /\ [][BuildNext]_vars

\* ============================================================= properties

FullCommit == <<"submit", "snap", "cursor">>

\* the poller is inside syncStakeInfos or has just returned from it
InSync == pc \in {"sync", "SubmitTx", "WriteStakeInfos", "WriteLatestBlock", "ret"}

\* ------------------------------------------------------------- C1
\* every height below the cursor was processed with success in this run, and
\* an epoch height among them had its submission accepted
C1_BelowCursorProcessed ==
    pc # "down" =>
        \A k \in StartBlock..(currentBlock - 1) :
            k \in processed /\ (IsEpoch(k) => k \in submitted)

C2_ProcessingIsConfirmed ==
    InSync => latestBlock - currentBlock >= BlockConfirmations

\* C2: an iteration that fetched L with L - h < D leaves h unprocessed and the
\* cursor at h; one that fetched L with L - h >= D calls syncStakeInfos(h).
C2_ConfirmationGating ==
    /\ []C2_ProcessingIsConfirmed
    /\ [][PollFetch =>
            /\ (latestBlock' - currentBlock < BlockConfirmations =>
                    /\ pc' = "poll"
                    /\ UNCHANGED <<currentBlock, processed, submitted, callLog,
                                   snapFile, cursorFile>>)
            /\ (latestBlock' - currentBlock >= BlockConfirmations =>
                    pc' = "sync" /\ currentBlock' = currentBlock)]_vars

C2_Witness ==
    /\ pc = "sync"
    /\ BlockConfirmations > 0
    /\ latestBlock = currentBlock + BlockConfirmations
    /\ currentBlock > StartBlock

\* ------------------------------------------------------------- C3
C3_ExhaustedState ==
    fails = BlockRetryLimit =>
        /\ retry = 0
        /\ pc \in {"poll", "sendStopRetries", "stopped", "down"}
        /\ (pc = "stopped" => outcome \in {"retries exceeded", "polling terminated"})
        /\ (pc = "stopped" /\ ~stopRaised => outcome = "retries exceeded")

C4_FailedState ==
    syncErr # "nil" =>
        /\ pc \in {"ret", "sendStopError", "stopped", "down"}
        /\ currentBlock \notin processed
        /\ (pc = "stopped" => outcome = syncErr)

C5_SubmitFailedState ==
    syncErr = "submit" =>
        /\ callLog = <<"submitFail">>
        /\ currentBlock \notin processed
        /\ pc \in {"ret", "sendStopError", "stopped", "down"}

StoppedPart == SubSeq(infos, Len(top20StakeInfos) + 1, Len(infos))

WorkBases(list) == {list[i].WorkBase : i \in 1..Len(list)}

\* C6: the stopped list holds each record of lastTop whose workBase is absent
\* from currentTop exactly once, with isActive = false, and no record of
\* lastTop whose workBase is present in currentTop.
C6_DiffCompleteness ==
    pc = "SubmitTx" =>
        LET lastTop == ReadStakeInfos(snapFile)
        IN  \A i \in 1..Len(lastTop) :
                LET hits == {k \in 1..Len(StoppedPart) :
                                StoppedPart[k].WorkBase = lastTop[i].WorkBase}
                IN  IF lastTop[i].WorkBase \in WorkBases(top20StakeInfos)
                    THEN hits = {}
                    ELSE /\ Cardinality(hits) = 1
                         /\ \A k \in hits : ~StoppedPart[k].IsWork

\* ------------------------------------------------------------- C7
C7_CallOrder ==
    callLog \in {<<>>, <<"submit">>, <<"submit", "snap">>, FullCommit, <<"submitFail">>}

\* the snapshot file holds the ranked snapshot of an accepted submission made
\* at a height not below the one in the cursor file
C7_SnapshotCoversCursor ==
    /\ snapFile.exists =>
          /\ snapCommit.height \in submitted
          /\ snapFile = WriteStakeInfos(snapCommit.top)
    /\ cursorFile.exists =>
          /\ snapFile.exists
          /\ ReadLatestBlock(cursorFile) \in submitted
          /\ snapCommit.height >= ReadLatestBlock(cursorFile)

\* C7: within one commit the order is SubmitTx, snapshot file, cursor file,
\* neither file is written anywhere else, and whenever the cursor file holds
\* a committed height the snapshot file holds the ranked snapshot submitted at
\* that height or at a later one.
C7_CommitOrdering ==
    /\ [](C7_CallOrder /\ C7_SnapshotCoversCursor)
    /\ [][snapFile' # snapFile =>
            callLog = <<"submit">> /\ callLog' = <<"submit", "snap">>]_vars
    /\ [][cursorFile' # cursorFile =>
            callLog = <<"submit", "snap">> /\ callLog' = FullCommit]_vars

C7_Witness ==
    /\ pc = "WriteLatestBlock"
    /\ callLog = <<"submit", "snap">>
    /\ cursorFile.exists
    /\ snapCommit.height > ReadLatestBlock(cursorFile)
    /\ snapFile = WriteStakeInfos(top20StakeInfos)

\* ------------------------------------------------------------- C8
\* C8: across crashes and restarts from the two files, every epoch height
\* between the configured start and the cursor has had an accepted submission,
\* and the stopped entries of every payload are the records of the snapshot
\* file as it is on disk.
C8_CrashResumption ==
    /\ (pc # "down" =>
          \A m \in configuredStart..(currentBlock - 1) : IsEpoch(m) => m \in submitted)
    /\ (pc = "SubmitTx" =>
          LET onDisk == ReadStakeInfos(snapFile)
          IN  /\ Len(StoppedPart) = Len(onDisk)
              /\ \A i \in 1..Len(onDisk) : StoppedPart[i].WorkBase = onDisk[i].WorkBase)

\* restarted after a crash between WriteStakeInfos and WriteLatestBlock: the
\* snapshot on disk is from a height above the one being processed again
C8_Witness ==
    /\ restarts > 0
    /\ pc = "SubmitTx"
    /\ snapCommit.height > currentBlock
    /\ Len(StoppedPart) > 0

C10_AccumulatorKeptOnFailure ==
    scanSubmit = "fail" =>
        /\ Len(stakeInfoList) >= Len(scanPayload)
        /\ \A i \in 1..Len(scanPayload) : scanPayload[i] \in Range(stakeInfoList)

\* ------------------------------------------------------------- C11
\* C11: processing a confirmed height h hands h to the event scanner
\* (getDepositEventsForBlock) before the epoch check, so every height whose
\* processing has returned has been scanned for deposit logs.
C11_ScannerRunsForProcessedHeights ==
    /\ \A k \in processed : scanBlock > k
    /\ (pc = "ret" /\ syncErr = "nil") => scanBlock > currentBlock

\* ------------------------------------------------------------- C12
\* C12: with the stop signal raised, the only step the loop takes from the top
\* of an iteration is to return "polling terminated", with no fetch and no
\* processing; a poller that has returned takes no further step.
C12_CooperativeStop ==
    /\ [](outcome = "polling terminated" => pc = "stopped" /\ stopRaised)
    /\ [][(pc = "poll" /\ stopRaised /\ pc' # "down") =>
            /\ pc' = "stopped"
            /\ outcome' = "polling terminated"
            /\ UNCHANGED <<currentBlock, retry, latestBlock, budgetFails, processed,
                           submitted, callLog, snapFile, cursorFile>>]_vars
    /\ [][pc = "stopped" => pc' = "down"]_vars

C12_Witness ==
    /\ pc = "stopped"
    /\ outcome = "polling terminated"
    /\ currentBlock > StartBlock
    /\ retry < BlockRetryLimit

\* ------------------------------------------------------------- C13
C13_BudgetOnlyFromFailures ==
    /\ pc # "down" => retry + budgetFails = BlockRetryLimit
    /\ (pc = "sendStopRetries" \/ outcome = "retries exceeded") =>
          budgetFails = BlockRetryLimit

\* C13: an iteration that finds L - h < D leaves the retry counter and the
\* cursor as they are, so the counter only ever falls by fetch failures and
\* "retries exceeded" is reached by BlockRetryLimit failures, never by waits.
C13_WaitKeepsRetryBudget ==
    /\ []C13_BudgetOnlyFromFailures
    /\ [][(PollFetch /\ latestBlock' - currentBlock < BlockConfirmations) =>
            /\ pc' = "poll"
            /\ UNCHANGED <<retry, currentBlock, budgetFails>>]_vars

\* a wait that followed a fetch failure: the counter is still one below full
C13_Witness ==
    /\ pc = "poll"
    /\ latestBlock >= 0
    /\ latestBlock - currentBlock < BlockConfirmations
    /\ budgetFails = 1
    /\ retry = BlockRetryLimit - 1

\* ------------------------------------------------------------- C14
C14_BudgetRange ==
    pc # "down" => retry \in 0..BlockRetryLimit /\ retry = BlockRetryLimit - budgetFails

C15_CommitOnlyAtEpoch ==
    /\ pc \in {"SubmitTx", "WriteStakeInfos", "WriteLatestBlock"} =>
          currentBlock % EpochLength = 0
    /\ (pc = "ret" /\ currentBlock % EpochLength # 0) =>
          syncErr = "nil" /\ callLog = <<>> /\ top20StakeInfos = <<>> /\ infos = <<>>

\* C15: syncStakeInfos(h) with h not a multiple of EpochLength returns nil at
\* once: no snapshot is built, nothing is submitted and neither file is
\* written.
C15_NonEpochHeightIsNoOp ==
    /\ []C15_CommitOnlyAtEpoch
    /\ [][(pc = "sync" /\ currentBlock % EpochLength # 0 /\ pc' \notin {"sync", "down"}) =>
            /\ pc' = "ret"
            /\ syncErr' = "nil"
            /\ UNCHANGED <<currentBlock, snapFile, cursorFile, submitted, lastSubmit,
                           snapCommit, callLog, top20StakeInfos, infos, registryErr>>]_vars

C15_Witness ==
    /\ pc = "ret"
    /\ currentBlock % EpochLength # 0
    /\ snapFile.exists
    /\ cursorFile.exists
    /\ ReadLatestBlock(cursorFile) < currentBlock

\* ------------------------------------------------------------- C16
C16_ProcessedIsPrefix ==
    /\ pc # "down" => processed = StartBlock..(currentBlock - 1)
    /\ InSync => currentBlock \notin processed

RecordsOfGoodIndices(enumerated, lookups) ==
    LET good == SelectSeq([i \in 1..Len(enumerated) |-> i], LAMBDA i : lookups[i] = "ok")
    IN  [k \in 1..Len(good) |-> StakeInfo(enumerated[good[k]][1], enumerated[good[k]][2])]

\* C17: a failed lookup for one registry index makes GetStakeInfo skip that
\* index: the build does not abort and returns exactly the records of the
\* other indices.
C17_FailedLookupIsSkipped ==
    buildInput.registryOK =>
        /\ ~buildOutcome.panicked
        /\ buildOutcome.list =
              RecordsOfGoodIndices(buildInput.enumerated, buildInput.lookups)

\* ------------------------------------------------------------- C18
PersistErrors == {"writeSnap", "writeCursor"}

\* where the poller is once a write of the commit has failed
C18_PersistFailedState ==
    /\ syncErr = "writeSnap" => callLog = <<"submit">>
    /\ syncErr = "writeCursor" => callLog = <<"submit", "snap">>
    /\ syncErr \in PersistErrors =>
          /\ pc \in {"ret", "sendStopError", "stopped"}
          /\ currentBlock \notin processed
          /\ currentBlock % EpochLength = 0
          /\ pc = "stopped" => outcome = syncErr

EmptyFile == [exists |-> TRUE, data |-> <<>>]

\* C19: an absent cursor file reads as height 0 without an error, an absent
\* or empty snapshot file reads as the empty snapshot without an error, and a
\* commit made while the snapshot file is absent has no stopped entries and is
\* not failed by the read.
C19_MissingFileIsNoPriorState ==
    /\ ~cursorFile.exists =>
          \A readOK \in BOOLEAN :
             /\ ReadLatestBlockErr(cursorFile, TRUE, readOK) = "nil"
             /\ ReadLatestBlock(cursorFile) = 0
    /\ ~snapFile.exists =>
          \A readOK \in BOOLEAN :
             /\ ReadStakeInfosErr(snapFile, TRUE, readOK) = "nil"
             /\ ReadStakeInfos(snapFile) = <<>>
    /\ ReadStakeInfosErr(EmptyFile, TRUE, TRUE) = "nil"
    /\ ReadStakeInfos(EmptyFile) = <<>>
    /\ syncErr \in {"read", "decode"} => snapFile.exists
    /\ (pc = "SubmitTx" /\ ~snapFile.exists) => infos = top20StakeInfos

\* the first commit of a fresh install has gone through
C19_Witness ==
    /\ restarts = 0
    /\ pc = "ret"
    /\ syncErr = "nil"
    /\ callLog = FullCommit
    /\ submitted = {currentBlock}
    /\ top20StakeInfos # <<>>
    /\ infos = top20StakeInfos

\* ------------------------------------------------------------- C20
\* C20: the cursor file, once written, holds a multiple of EpochLength at
\* which a submission was accepted, is never ahead of the cursor of the
\* running poller, stays in place, and its value never goes down.
C20_CursorFileState ==
    cursorFile.exists =>
        /\ ReadLatestBlock(cursorFile) % EpochLength = 0
        /\ ReadLatestBlock(cursorFile) \in submitted
        /\ pc # "down" => ReadLatestBlock(cursorFile) <= currentBlock

C20_CursorFileMonotone ==
    /\ []C20_CursorFileState
    /\ [][cursorFile.exists =>
            /\ cursorFile'.exists
            /\ ReadLatestBlock(cursorFile') >= ReadLatestBlock(cursorFile)]_vars

\* the file written at height 0 has been rewritten at the next epoch height
C20_Witness ==
    /\ restarts = 0
    /\ 0 \in processed
    /\ pc = "ret"
    /\ callLog = FullCommit
    /\ cursorFile.exists
    /\ ReadLatestBlock(cursorFile) = EpochLength
    /\ currentBlock = EpochLength

\* ------------------------------------------------------------- C21
\* C21: when GetStakeInfo could not read the registry, syncStakeInfos makes
\* no submission built from the empty current snapshot (which would report
\* every staker of the last snapshot as stopped) and does not replace the
\* snapshot file by an empty one.
C21_RegistryFailureCommitsNothing ==
    registryErr =>
        /\ ~(top20StakeInfos = <<>> /\ Len(callLog) >= 1 /\ callLog[1] = "submit")
        /\ ~(Len(callLog) >= 2 /\ callLog[2] = "snap" /\ snapFile = WriteStakeInfos(<<>>))

\* ------------------------------------------------------------- C22
\* a ranked snapshot: at most Top20Limit records, all working, by descending
\* locked balance
IsRankedTop(list) ==
    /\ Len(list) <= Top20Limit
    /\ \A i \in 1..Len(list) : list[i].IsWork
    /\ \A i, j \in 1..Len(list) : i < j => list[i].LockedBalance >= list[j].LockedBalance

\* the payload of the syncStakeInfos call in progress
C22_PayloadShape ==
    pc \in {"SubmitTx", "WriteStakeInfos", "WriteLatestBlock"} =>
        /\ IsRankedTop(top20StakeInfos)
        /\ Len(infos) >= Len(top20StakeInfos)
        /\ SubSeq(infos, 1, Len(top20StakeInfos)) = top20StakeInfos
        /\ \A k \in 1..Len(StoppedPart) : ~StoppedPart[k].IsWork
        /\ pc = "SubmitTx" =>
              \A k \in 1..Len(StoppedPart) :
                 \E i \in 1..Len(ReadStakeInfos(snapFile)) :
                    StoppedPart[k] = [ReadStakeInfos(snapFile)[i] EXCEPT !.IsWork = FALSE]

\* C22: a submitted payload is the ranked current snapshot (at most
\* Top20Limit records, all working) followed by records of the last persisted
\* snapshot marked as not working; what is persisted after the submission is
\* the ranked current snapshot alone, so the snapshot file never holds more
\* than Top20Limit records nor a record that is not working.
C22_PayloadIsTopThenStopped ==
    /\ [](C22_PayloadShape /\ IsRankedTop(ReadStakeInfos(snapFile)))
    /\ [][(callLog = <<>> /\ callLog' = <<"submit">>) =>
            /\ lastSubmit'.top = top20StakeInfos
            /\ UNCHANGED <<top20StakeInfos, infos, snapFile>>]_vars
    /\ [][snapFile' # snapFile =>
            /\ callLog = <<"submit">>
            /\ ReadStakeInfos(snapFile') = top20StakeInfos
            /\ lastSubmit.top = top20StakeInfos]_vars

\* a cut-down current snapshot has been persisted after a payload that also
\* reported a stopped staker
C22_Witness ==
    /\ pc = "WriteLatestBlock"
    /\ Len(top20StakeInfos) = Top20Limit
    /\ Len(StoppedPart) > 0
    /\ snapFile = WriteStakeInfos(top20StakeInfos)
    /\ Len(ReadStakeInfos(snapFile)) < Len(infos)

====
